---- MODULE Spec2Model ----
(***************************************************************************)
(* Model of backend/server.py: FaceRecognitionServer.                      *)
(*                                                                         *)
(* One asyncio event loop runs video_stream_loop and one handle_connection *)
(* task per accepted websocket.  The tasks are cooperative: a task runs    *)
(* until its next await, so the handlers act only while the broadcast loop *)
(* is suspended in `await ws.send(...)` or `await asyncio.sleep(0.03)`.    *)
(*                                                                         *)
(* Numbers.  Embeddings are small integer vectors and a cosine similarity  *)
(* is kept exactly, as sign * sqrt(p/q) with p/q in lowest terms, so that  *)
(* the comparison with the threshold 0.6 = sqrt(9/25) is exact.  0/0 is    *)
(* NaN, as numpy computes it.  Detector coordinates are floats; they are   *)
(* kept in half pixels, and int() truncates them toward zero.              *)
(* Wall-clock fields (timestamp, lastUpdated) are not modelled.            *)
(***************************************************************************)
EXTENDS Integers, Sequences, FiniteSets, TLC

VARIABLES
    pc,                  \* position of video_stream_loop
    cap,                 \* the capture device: "unopened", "opened" or "failed"
    misses,              \* failed reads in a row, counted round 1..MaxMisses
    results,             \* detector output for the frame of the running cycle
    response,            \* <<payload>> of the running cycle, <<>> outside one
    active_connections,  \* self.active_connections
    conn,                \* transport state of each websocket
    handler,             \* position of each handle_connection task
    snapshot,            \* list(self.active_connections) of the running fan-out
    idx,                 \* position of the fan-out in snapshot
    delivered,           \* handles whose send returned in this fan-out
    failed               \* handles whose send raised in this fan-out

vars == <<pc, cap, misses, results, response, active_connections, conn,
          handler, snapshot, idx, delivered, failed>>

----------------------------------------------------------------------------
(* Bounds of the model *)

MaxBoxes == 2       \* boxes the detector returns for one frame
MaxConns == 3       \* websockets that ever connect
FrameW == 2         \* frame width in pixels
FrameH == 2         \* frame height in pixels
MaxMisses == 2      \* failed reads in a row that are told apart

Handles == 1..MaxConns

----------------------------------------------------------------------------
(* Exact arithmetic on similarities *)

Sign(n) == IF n < 0 THEN -1 ELSE IF n > 0 THEN 1 ELSE 0

RECURSIVE Gcd(_, _)
Gcd(a, b) == IF b = 0 THEN a ELSE Gcd(b, a % b)

\* IEEE not-a-number: the result of 0/0
NaN == [s |-> 0, p |-> 0, q |-> 0]

IsNaN(v) == v.q = 0

\* the float 0.0
Zero == [s |-> 0, p |-> 0, q |-> 1]

\* num / sqrt(den2), den2 >= 0; a zero numerator over a zero denominator is NaN
Quot(num, den2) ==
    IF den2 = 0 THEN NaN
    ELSE IF num = 0 THEN Zero
    ELSE LET g == Gcd(num * num, den2)
         IN  [s |-> Sign(num), p |-> (num * num) \div g, q |-> den2 \div g]

\* a > b on floats: false as soon as one side is NaN
Gt(a, b) ==
    /\ ~IsNaN(a)
    /\ ~IsNaN(b)
    /\ IF a.s # b.s THEN a.s > b.s
       ELSE IF a.s = 1 THEN a.p * b.q > b.p * a.q
       ELSE IF a.s = -1 THEN a.p * b.q < b.p * a.q
       ELSE FALSE

\* the literal 0.6 of line 61
Threshold == [s |-> 1, p |-> 9, q |-> 25]

----------------------------------------------------------------------------
(* initialize_models: the gallery, its labels and the label encoder *)

\* self.Y: one embedding per gallery row
Y == << <<1, 0>>, <<0, -1>>, <<2, 0>> >>

\* self.labels
labels == <<"bob", "alice", "bob">>

\* the order of strings, on the labels that occur
LabelOrder == <<"alice", "bob", "carol">>

\* LabelEncoder.fit_transform: classes_ are the distinct labels, sorted
encoder_classes ==
    LET present == {labels[i] : i \in 1..Len(labels)}
    IN  SelectSeq(LabelOrder, LAMBDA l : l \in present)

----------------------------------------------------------------------------
(* calculate_similarity *)

Dot(a, b) == LET RECURSIVE D(_)
                 D(i) == IF i = 0 THEN 0 ELSE a[i] * b[i] + D(i - 1)
             IN  D(Len(a))

\* squared Euclidean norm
Norm2(a) == Dot(a, a)

\* np.dot raises ValueError when the shapes do not align
ShapesAlign(embedding1, embeddings2) ==
    \A i \in 1..Len(embeddings2) : Len(embeddings2[i]) = Len(embedding1)

\* 0/0 is NaN with a RuntimeWarning, not an exception, so the except branch
\* is taken for a shape error only and returns np.zeros(len(embeddings2))
calculate_similarity(embedding1, embeddings2) ==
    IF ShapesAlign(embedding1, embeddings2)
    THEN [i \in 1..Len(embeddings2) |->
            Quot(Dot(embedding1, embeddings2[i]),
                 Norm2(embedding1) * Norm2(embeddings2[i]))]
    ELSE [i \in 1..Len(embeddings2) |-> Zero]

\* np.max: NaN as soon as one entry is NaN
np_max(v) ==
    IF \E i \in 1..Len(v) : IsNaN(v[i]) THEN NaN
    ELSE CHOOSE m \in {v[i] : i \in 1..Len(v)} :
            \A i \in 1..Len(v) : ~Gt(v[i], m)

----------------------------------------------------------------------------
(* process_frame *)

\* int() of a float kept in half pixels: truncation toward zero
int(h) == IF h >= 0 THEN h \div 2 ELSE -((-h) \div 2)

\* number of indices a Python slice [a:b] selects on an axis of length n
SliceLen(a, b, n) ==
    LET clip(k) == IF k < 0 THEN (IF k + n < 0 THEN 0 ELSE k + n)
                   ELSE (IF k > n THEN n ELSE k)
    IN  IF clip(b) > clip(a) THEN clip(b) - clip(a) ELSE 0

\* rgb_img[y1:y2, x1:x2].size, three channels
CropSize(x1, y1, x2, y2) ==
    SliceLen(y1, y2, FrameH) * SliceLen(x1, x2, FrameW) * 3

DigitStr == <<"0", "1", "2", "3", "4", "5", "6", "7", "8", "9">>

\* str() of a natural number
RECURSIVE str(_)
str(n) == IF n < 10 THEN DigitStr[n + 1]
          ELSE str(n \div 10) \o DigitStr[(n % 10) + 1]

\* mutant: the threshold taken inclusively, `max_similarity >= 0.6`
AboveThresholdInclusive(max_similarity) == ~Gt(Threshold, max_similarity)

\* the threshold decision of line 61
AboveThreshold(max_similarity) == Gt(max_similarity, Threshold)

\* encoder.inverse_transform raises ValueError on an unseen index
KnownIndex(face_idx) == face_idx \in 0..(Len(encoder_classes) - 1)

\* mutant: faces numbered from one
FaceOneBased(n, name, max_similarity, x1, y1, x2, y2) ==
    [id |-> str(n + 1), name |-> name, confidence |-> max_similarity,
     box |-> <<x1, y1, x2 - x1, y2 - y1>>]

\* mutant: the box left as corners
FaceCorners(n, name, max_similarity, x1, y1, x2, y2) ==
    [id |-> str(n), name |-> name, confidence |-> max_similarity,
     box |-> <<x1, y1, x2, y2>>]

\* the dictionary appended at lines 67-73
Face(n, name, max_similarity, x1, y1, x2, y2) ==
    [id |-> str(n), name |-> name, confidence |-> max_similarity,
     box |-> <<x1, y1, x2 - x1, y2 - y1>>]

\* One pass of the loop body at lines 52-76 for detector box d, where d.xyxy
\* are the reported corners, d.emb the embedding FaceNet computes for the
\* crop (d.embErr: it raises), d.svm the index the classifier predicts.
\* Returns detected_faces after the pass: unchanged on `continue` and on a
\* caught exception.
ProcessBox(detected_faces, d) ==
    LET x1 == int(d.xyxy[1])
        y1 == int(d.xyxy[2])
        x2 == int(d.xyxy[3])
        y2 == int(d.xyxy[4])
        max_similarity == np_max(calculate_similarity(d.emb, Y))
    IN  IF CropSize(x1, y1, x2, y2) = 0 THEN detected_faces
        ELSE IF d.embErr THEN detected_faces
        ELSE IF AboveThreshold(max_similarity)
        THEN IF KnownIndex(d.svm)
             THEN Append(detected_faces,
                         Face(Len(detected_faces), encoder_classes[d.svm + 1],
                              max_similarity, x1, y1, x2, y2))
             ELSE detected_faces
        ELSE Append(detected_faces,
                    Face(Len(detected_faces), "Visitor",
                         max_similarity, x1, y1, x2, y2))

\* mutant: the try around the whole loop, so that the first embedder error
\* ends the frame
process_frame_try_outside(dets) ==
    LET RECURSIVE go(_, _)
        go(acc, k) ==
            IF k > Len(dets) THEN acc
            ELSE IF /\ CropSize(int(dets[k].xyxy[1]), int(dets[k].xyxy[2]),
                                int(dets[k].xyxy[3]), int(dets[k].xyxy[4])) # 0
                    /\ dets[k].embErr
                 THEN acc
                 ELSE go(ProcessBox(acc, dets[k]), k + 1)
    IN  go(<<>>, 1)

RECURSIVE process_frame(_)
process_frame(dets) ==
    IF dets = <<>> THEN <<>>
    ELSE ProcessBox(process_frame(SubSeq(dets, 1, Len(dets) - 1)),
                    dets[Len(dets)])

\* mutant: isDetecting reporting whether a face was found
PayloadDetectingIfFaces(faces) ==
    [status |-> [isDetecting |-> faces # <<>>], faces |-> faces]

\* the response dictionary of lines 92-98
Payload(faces) == [status |-> [isDetecting |-> TRUE], faces |-> faces]

----------------------------------------------------------------------------
(* Inputs: what the detector, the embedder and the classifier return *)

\* corner abscissae in half pixels: negative, fractional, inside, beyond
XVals == {-2, 1, 2, 2 * FrameW + 2}

\* (y1, y2) in half pixels: inside, zero height, beyond the frame
YRanges == {<<0, 2>>, <<2, 2>>, <<1, 2 * FrameH + 2>>}

\* probe embeddings: best cosine 0.6 exactly, 0.8, 0, NaN (zero vector),
\* wrong dimension, negative and irrational
Probes == {<<3, 4>>, <<4, 3>>, <<0, 1>>, <<0, 0>>, <<1, 0, 0>>, <<-1, 1>>}

\* class indices the classifier may predict; 2 is unknown to the encoder
SvmOut == 0..2

Box(xyxy, emb, embErr, svm) ==
    [xyxy |-> xyxy, emb |-> emb, embErr |-> embErr, svm |-> svm]

GoodBox == Box(<<1, 0, 2, 2>>, <<4, 3>>, FALSE, 1)

\* every pair of abscissae on a row inside the frame, and every ordinate
\* range on a column inside it
CoordInputs ==
    {Box(<<x1, 0, x2, 2>>, <<4, 3>>, FALSE, 1) : x1 \in XVals, x2 \in XVals}
        \cup {Box(<<1, yr[1], 2, yr[2]>>, <<4, 3>>, FALSE, 1) : yr \in YRanges}

\* every probe; every classifier answer at and above the threshold; an
\* embedder that raises
EmbInputs ==
    {Box(<<1, 0, 2, 2>>, e, FALSE, 0) : e \in Probes}
        \cup {Box(<<1, 0, 2, 2>>, e, FALSE, k) :
                 e \in {<<3, 4>>, <<4, 3>>}, k \in SvmOut}
        \cup {Box(<<1, 0, 2, 2>>, <<4, 3>>, TRUE, 1)}

BoxInputs == CoordInputs \cup EmbInputs

RECURSIVE SeqsUpTo(_, _)
SeqsUpTo(S, n) ==
    IF n = 0 THEN {<<>>}
    ELSE LET shorter == SeqsUpTo(S, n - 1)
         IN  shorter \cup {Append(q, x) : q \in shorter, x \in S}

\* detector outputs of the pipeline specification
Frames == SeqsUpTo(BoxInputs, MaxBoxes)

\* detector outputs of the broadcast specification
LoopFrames ==
    {<<>>,
     <<GoodBox>>,
     <<Box(<<1, 0, 2, 2>>, <<0, 0>>, FALSE, 0),
       Box(<<1, 0, 2, 2>>, <<4, 3>>, TRUE, 1)>>}

----------------------------------------------------------------------------
(* State machine *)

Init ==
    /\ pc = "init"
    /\ cap = "unopened"
    /\ misses = 0
    /\ results = <<>>
    /\ response = <<>>
    /\ active_connections = {}
    /\ conn = [h \in Handles |-> "none"]
    /\ handler = [h \in Handles |-> "idle"]
    /\ snapshot = <<>>
    /\ idx = 0
    /\ delivered = {}
    /\ failed = {}

LoopVars == <<pc, cap, misses, results, response, snapshot, idx, delivered,
              failed>>
ConnVars == <<active_connections, conn, handler>>

\* mutant: other tasks running at any position of the loop task, as if
\* cap.read() and process_frame yielded to the event loop
AlwaysRunnable == TRUE

\* mutant: the sleep as the only await of the loop
SuspendedOnlyInSleep == pc = "sleep"

\* the loop task is suspended in an await, so other tasks may run
Suspended == pc \in {"sending", "sleep"}

\* list(s): the elements of s, each once, in the set's iteration order
ListOf(s) ==
    {q \in [1..Cardinality(s) -> s] : \A h \in s : \E i \in DOMAIN q : q[i] = h}

\* lines 80-81: the capture device opens
OpenOk ==
    /\ pc = "init"
    /\ cap' = "opened"
    /\ pc' = "read"
    /\ UNCHANGED <<misses, results, response, snapshot, idx, delivered, failed>>
    /\ UNCHANGED ConnVars

\* mutant: the failure logged without the return
OpenFailFallsThrough ==
    /\ pc = "init"
    /\ cap' = "failed"
    /\ pc' = "read"
    /\ UNCHANGED <<misses, results, response, snapshot, idx, delivered, failed>>
    /\ UNCHANGED ConnVars

\* lines 81-83: it does not; the loop returns
OpenFail ==
    /\ pc = "init"
    /\ cap' = "failed"
    /\ pc' = "terminal"
    /\ UNCHANGED <<misses, results, response, snapshot, idx, delivered, failed>>
    /\ UNCHANGED ConnVars

\* lines 86-87: cap.read() returns a frame
ReadOk ==
    /\ pc = "read"
    /\ misses' = 0
    /\ pc' = "process"
    /\ UNCHANGED <<cap, results, response, snapshot, idx, delivered, failed>>
    /\ UNCHANGED ConnVars

\* mutant: a failed read that backs off through the sleep of line 108
ReadFailSleeps ==
    /\ pc = "read"
    /\ misses' = (misses % MaxMisses) + 1
    /\ pc' = "sleep"
    /\ UNCHANGED <<cap, results, response, snapshot, idx, delivered, failed>>
    /\ UNCHANGED ConnVars

\* lines 87-89: cap.read() returns no frame; `continue` without an await
ReadFail ==
    /\ pc = "read"
    /\ misses' = (misses % MaxMisses) + 1
    /\ pc' = "read"
    /\ UNCHANGED <<cap, results, response, snapshot, idx, delivered, failed>>
    /\ UNCHANGED ConnVars

\* lines 46-47: cvtColor or model.predict raises, outside every try
DetectFail ==
    /\ pc = "process"
    /\ pc' = "crashed"
    /\ UNCHANGED <<cap, misses, results, response, snapshot, idx, delivered, failed>>
    /\ UNCHANGED ConnVars

\* lines 91-98: process_frame on the detector output, then the payload
ProcessFrame(inputs) ==
    /\ pc = "process"
    /\ \E dets \in inputs :
          /\ results' = dets
          /\ response' = <<Payload(process_frame(dets))>>
    /\ pc' = "fanout"
    /\ UNCHANGED <<cap, misses, snapshot, idx, delivered, failed>>
    /\ UNCHANGED ConnVars

\* lines 100-104: the copy of the registry is taken and the first send starts
Snapshot ==
    /\ pc = "fanout"
    /\ \E q \in ListOf(active_connections) :
          /\ snapshot' = q
          /\ idx' = 1
          /\ pc' = IF q = <<>> THEN "sleep" ELSE "sending"
    /\ delivered' = {}
    /\ failed' = {}
    /\ UNCHANGED <<cap, misses, results, response>>
    /\ UNCHANGED ConnVars

\* position of the loop after the send to snapshot[idx] has ended
AfterSend == IF idx < Len(snapshot) THEN "sending" ELSE "sleep"

\* mutant: a send that returns on a closed transport too
SendOkAnyTransport ==
    /\ pc = "sending"
    /\ delivered' = delivered \cup {snapshot[idx]}
    /\ idx' = idx + 1
    /\ pc' = AfterSend
    /\ UNCHANGED <<cap, misses, results, response, snapshot, failed>>
    /\ UNCHANGED ConnVars

\* line 104: the send returns; the transport was open
SendOk ==
    /\ pc = "sending"
    /\ conn[snapshot[idx]] = "open"
    /\ delivered' = delivered \cup {snapshot[idx]}
    /\ idx' = idx + 1
    /\ pc' = AfterSend
    /\ UNCHANGED <<cap, misses, results, response, snapshot, failed>>
    /\ UNCHANGED ConnVars

\* mutant: the exception of a send ends the fan-out
SendFailBreaks ==
    /\ pc = "sending"
    /\ failed' = failed \cup {snapshot[idx]}
    /\ idx' = idx + 1
    /\ pc' = "sleep"
    /\ UNCHANGED <<cap, misses, results, response, snapshot, delivered>>
    /\ UNCHANGED ConnVars

\* mutant: the websocket of a failed send discarded from the registry
SendFailDiscards ==
    /\ pc = "sending"
    /\ failed' = failed \cup {snapshot[idx]}
    /\ idx' = idx + 1
    /\ pc' = AfterSend
    /\ active_connections' = active_connections \ {snapshot[idx]}
    /\ UNCHANGED <<cap, misses, results, response, snapshot, delivered>>
    /\ UNCHANGED <<conn, handler>>

\* lines 105-106: the send raises; the exception is logged
SendFail ==
    /\ pc = "sending"
    /\ failed' = failed \cup {snapshot[idx]}
    /\ idx' = idx + 1
    /\ pc' = AfterSend
    /\ UNCHANGED <<cap, misses, results, response, snapshot, delivered>>
    /\ UNCHANGED ConnVars

\* line 108: the sleep ends and the cycle with it; what the cycle held is
\* dead from here on (each is assigned again before it is next read)
SleepDone ==
    /\ pc = "sleep"
    /\ pc' = "read"
    /\ UNCHANGED <<cap, misses>>
    /\ results' = <<>>
    /\ response' = <<>>
    /\ snapshot' = <<>>
    /\ idx' = 0
    /\ delivered' = {}
    /\ failed' = {}
    /\ UNCHANGED ConnVars

\* line 123: the server accepts a websocket and creates its handler task,
\* which has not run yet
Accept(h) ==
    /\ Suspended
    /\ handler[h] = "idle"
    /\ conn' = [conn EXCEPT ![h] = "open"]
    /\ handler' = [handler EXCEPT ![h] = "accepted"]
    /\ UNCHANGED active_connections
    /\ UNCHANGED LoopVars

\* mutant: the fan-out iterating the live set, which picks up the new handle
RegisterJoinsFanout(h) ==
    /\ Suspended
    /\ handler[h] = "accepted"
    /\ active_connections' = active_connections \cup {h}
    /\ handler' = [handler EXCEPT ![h] = "waiting"]
    /\ snapshot' = IF pc = "sending" THEN Append(snapshot, h) ELSE snapshot
    /\ UNCHANGED conn
    /\ UNCHANGED <<pc, cap, misses, results, response, idx, delivered, failed>>

\* lines 110-115: the handler runs to its await: it registers the websocket
\* and waits for it to close
Register(h) ==
    /\ Suspended
    /\ handler[h] = "accepted"
    /\ active_connections' = active_connections \cup {h}
    /\ handler' = [handler EXCEPT ![h] = "waiting"]
    /\ UNCHANGED conn
    /\ UNCHANGED LoopVars

\* the transport of a websocket closes
Close(h) ==
    /\ Suspended
    /\ conn[h] = "open"
    /\ conn' = [conn EXCEPT ![h] = "closed"]
    /\ UNCHANGED <<active_connections, handler>>
    /\ UNCHANGED LoopVars

\* mutant: the fan-out iterating the live set, which loses the removed handle
UnregisterLive(h) ==
    /\ Suspended
    /\ handler[h] = "waiting"
    /\ conn[h] = "closed"
    /\ active_connections' = active_connections \ {h}
    /\ handler' = [handler EXCEPT ![h] = "done"]
    /\ snapshot' = SelectSeq(snapshot, LAMBDA g : g # h)
    /\ UNCHANGED conn
    /\ UNCHANGED <<pc, cap, misses, results, response, idx, delivered, failed>>

\* mutant: the handler ending without its finally clause
UnregisterLeaks(h) ==
    /\ Suspended
    /\ handler[h] = "waiting"
    /\ conn[h] = "closed"
    /\ handler' = [handler EXCEPT ![h] = "done"]
    /\ UNCHANGED <<active_connections, conn>>
    /\ UNCHANGED LoopVars

\* lines 115-118: wait_closed returns and the handler removes its websocket
Unregister(h) ==
    /\ Suspended
    /\ handler[h] = "waiting"
    /\ conn[h] = "closed"
    /\ active_connections' = active_connections \ {h}
    /\ handler' = [handler EXCEPT ![h] = "done"]
    /\ UNCHANGED conn
    /\ UNCHANGED LoopVars

\* lines 116-118 when main ends: the loop has raised, asyncio.run cancels the
\* handler in wait_closed, and its finally clause removes the websocket
Cancel(h) ==
    /\ pc = "crashed"
    /\ handler[h] = "waiting"
    /\ active_connections' = active_connections \ {h}
    /\ handler' = [handler EXCEPT ![h] = "done"]
    /\ UNCHANGED conn
    /\ UNCHANGED LoopVars

LoopStep(inputs) ==
    \/ OpenOk
    \/ OpenFail
    \/ ReadOk
    \/ ReadFail
    \/ DetectFail
    \/ ProcessFrame(inputs)
    \/ Snapshot
    \/ SleepDone

Next ==
    \/ LoopStep(LoopFrames)
    \/ SendOk
    \/ SendFail
    \/ \E h \in Handles : Accept(h)
    \/ \E h \in Handles : Register(h)
    \/ \E h \in Handles : Close(h)
    \/ \E h \in Handles : Unregister(h)
    \/ \E h \in Handles : Cancel(h)

Spec == Init /\ [][Next]_vars

\* the pipeline alone, on every detector output, with no websocket connected
NextFrame == LoopStep(Frames)

SpecFrame == Init /\ [][NextFrame]_vars

----------------------------------------------------------------------------
(* Vocabulary of the properties *)

Range(q) == {q[i] : i \in DOMAIN q}

\* the payload exists from the return of process_frame to the end of the sleep
HasPayload == response # <<>>

faces == response[1].faces

\* the crop of detector box d is empty: the box is skipped by `continue`
EmptyCrop(d) ==
    CropSize(int(d.xyxy[1]), int(d.xyxy[2]), int(d.xyxy[3]), int(d.xyxy[4])) = 0

\* the cosine of e with gallery row i is defined: same dimension
CosineDefined(e) == \A i \in 1..Len(Y) : Len(Y[i]) = Len(e)

\* m: the largest cosine of e with a gallery row (NaN when a norm is zero)
MaxCosine(e) ==
    np_max([i \in 1..Len(Y) |-> Quot(Dot(e, Y[i]), Norm2(e) * Norm2(Y[i]))])

\* an exception reaches the handler of line 74: the embedder raises, or the
\* predicted index cannot be decoded
Raises(d) ==
    /\ ~EmptyCrop(d)
    /\ \/ d.embErr
       \/ /\ CosineDefined(d.emb)
          /\ Gt(MaxCosine(d.emb), Threshold)
          /\ d.svm \notin 0..(Len(encoder_classes) - 1)

Emitted(d) == ~EmptyCrop(d) /\ ~Raises(d)

\* the boxes of the frame that yield a face, in detector order
Survivors == SelectSeq(results, Emitted)

\* boxes of the frame that raise, and boxes skipped for an empty crop
NumRaising == Len(SelectSeq(results, Raises))

NumEmptyCrop == Len(SelectSeq(results, EmptyCrop))

----------------------------------------------------------------------------
(* C1 *)

\* C1: every emitted face whose best cosine m is defined is named "Visitor"
\* when m <= 0.6 (0.6 included), whatever index the classifier would predict,
\* is named by the classifier's label when m > 0.6, and carries confidence m.
C1_ThresholdDecision ==
    HasPayload =>
        /\ Len(faces) = Len(Survivors)
        /\ \A i \in 1..Len(faces) :
              LET d == Survivors[i]
                  m == MaxCosine(d.emb)
              IN  (CosineDefined(d.emb) /\ ~IsNaN(m)) =>
                     /\ ~Gt(m, Threshold) => faces[i].name = "Visitor"
                     /\ Gt(m, Threshold) =>
                            faces[i].name = encoder_classes[d.svm + 1]
                     /\ faces[i].confidence = m

\* a frame with a face at exactly 0.6 named "Visitor" although the classifier
\* would answer, and a face at 0.8 named "alice" by the classifier, not by
\* the nearest gallery row ("bob")
C1_Witness ==
    /\ HasPayload
    /\ Len(faces) = 2
    /\ Len(results) = 2
    /\ results[1].emb = <<3, 4>> /\ results[1].svm = 1
    /\ faces[1].name = "Visitor" /\ faces[1].confidence = Threshold
    /\ results[2].emb = <<4, 3>> /\ results[2].svm = 0
    /\ faces[2].name = "alice"
    /\ faces[2].confidence = [s |-> 1, p |-> 16, q |-> 25]

----------------------------------------------------------------------------
(* C2 *)

\* C2: a face whose embedding has norm zero is emitted as "Visitor" with
\* confidence 0, a finite number.
C2_ZeroNormScoresZero ==
    HasPayload =>
        \A i \in 1..Len(faces) :
            (i <= Len(Survivors) /\ CosineDefined(Survivors[i].emb)
                /\ Norm2(Survivors[i].emb) = 0) =>
                    /\ faces[i].name = "Visitor"
                    /\ ~IsNaN(faces[i].confidence)
                    /\ faces[i].confidence = Zero

----------------------------------------------------------------------------
(* C3 *)

----------------------------------------------------------------------------
(* C4 *)

\* C4: every payload has status.isDetecting true, and the payload of a frame
\* without boxes has no faces.
C4_IsDetectingAlways ==
    HasPayload =>
        /\ response[1].status.isDetecting = TRUE
        /\ results = <<>> => faces = <<>>

\* the payload of a frame without boxes is being sent
C4_Witness ==
    /\ HasPayload
    /\ pc = "sending"
    /\ results = <<>>
    /\ faces = <<>>
    /\ response[1].status.isDetecting

----------------------------------------------------------------------------
(* C5 *)

\* C5: the face at position i (from 0) has id str(i), so the ids of one
\* payload are distinct and contiguous from "0", also when boxes were
\* skipped or raised.
C5_IdsArePositions ==
    HasPayload =>
        /\ \A i \in 1..Len(faces) : faces[i].id = DigitStr[i]
        /\ \A i, j \in 1..Len(faces) : faces[i].id = faces[j].id => i = j

\* the first box is skipped or raises and the second is emitted with id "0"
C5_Witness ==
    /\ HasPayload
    /\ Len(results) = 2
    /\ ~Emitted(results[1])
    /\ Len(faces) = 1
    /\ faces[1].id = "0"

----------------------------------------------------------------------------
(* C6 *)

IntegerBox(d) == \A k \in 1..4 : d.xyxy[k] % 2 = 0

\* C6: when the detector reports integer boxes, every emitted box has
\* positive width and height and lies inside the frame.
C6_EmittedBoxesInsideFrame ==
    (HasPayload /\ \A k \in 1..Len(results) : IntegerBox(results[k])) =>
        \A i \in 1..Len(faces) :
            LET b == faces[i].box
            IN  /\ b[3] > 0 /\ b[4] > 0
                /\ b[1] >= 0 /\ b[2] >= 0
                /\ b[1] + b[3] <= FrameW
                /\ b[2] + b[4] <= FrameH

----------------------------------------------------------------------------
(* C7 *)

\* C7: the box of an emitted face is [x1, y1, x2-x1, y2-y1] for the corners
\* (x1, y1, x2, y2) of its detector box, as integers.
C7_BoxIsXYWH ==
    HasPayload =>
        /\ Len(faces) = Len(Survivors)
        /\ \A i \in 1..Len(faces) :
              LET x1 == int(Survivors[i].xyxy[1])
                  y1 == int(Survivors[i].xyxy[2])
                  x2 == int(Survivors[i].xyxy[3])
                  y2 == int(Survivors[i].xyxy[4])
              IN  faces[i].box = <<x1, y1, x2 - x1, y2 - y1>>

\* a face whose box has x1 > 0 and a width different from x2
C7_Witness ==
    /\ HasPayload
    /\ Len(faces) = 1
    /\ Len(results) = 1
    /\ results[1].xyxy = <<2, 0, 2 * FrameW + 2, 2>>
    /\ faces[1].box = <<1, 0, FrameW, 1>>

----------------------------------------------------------------------------
(* C8 *)

\* the handles a send was attempted to in the running fan-out
Attempted == delivered \cup failed

\* C8: whichever sends raise, the fan-out attempts a send to every handle of
\* its snapshot, one after the other, and then reaches the sleep.
C8_SendFailureIsolated ==
    /\ delivered \cap failed = {}
    /\ pc = "sending" =>
          /\ idx \in 1..Len(snapshot)
          /\ Attempted = {snapshot[j] : j \in 1..(idx - 1)}
    /\ pc = "sleep" => Attempted = Range(snapshot)

\* at the sleep, a send had raised before a later one returned
C8_Witness ==
    /\ pc = "sleep"
    /\ \E i, j \in 1..Len(snapshot) :
          /\ i < j
          /\ snapshot[i] \in failed
          /\ snapshot[j] \in delivered

----------------------------------------------------------------------------
(* C9 *)

\* C9: the list the fan-out walks is the registry as it was when the fan-out
\* started; a register or unregister that runs during the sends changes
\* neither that list nor the position of the fan-out, and at the sleep the
\* handles attempted are exactly those of the list.
C9_FanoutWalksCopy ==
    /\ [][(pc = "fanout" /\ pc' # "fanout") =>
             /\ Range(snapshot') = active_connections
             /\ Len(snapshot') = Cardinality(active_connections)]_vars
    /\ [][(active_connections' # active_connections) =>
             /\ snapshot' = snapshot
             /\ idx' = idx
             /\ pc' = pc
             /\ delivered' = delivered
             /\ failed' = failed]_vars
    /\ [](pc = "sleep" => Attempted = Range(snapshot))

\* at the sleep, one handle of the list has been unregistered and another
\* handle has been registered since the fan-out started
C9_Witness ==
    /\ pc = "sleep"
    /\ Attempted = Range(snapshot)
    /\ Range(snapshot) \ active_connections # {}
    /\ active_connections \ Range(snapshot) # {}

----------------------------------------------------------------------------
(* C10 *)

\* C10 as stated: when the last send of a fan-out ends, a handle of the
\* snapshot has been unregistered during the sends and no send to a handle
\* that is still registered has raised, the handles reached are exactly those
\* of the snapshot that are still registered.
C10_ReachesExactlyRemaining ==
    [][(/\ pc = "sending"
        /\ pc' = "sleep"
        /\ Range(snapshot) \ active_connections # {}
        /\ failed' \cap active_connections = {}) =>
            delivered' = Range(snapshot) \cap active_connections]_vars

\* C10, amended: an unregister leaves the snapshot as it was, so a send is
\* attempted to every handle of it, the unregistered one included; a send
\* returns only for a handle that is registered and open at that moment, so
\* the unregistered handle is reached only if it was sent before it closed.
C10_ReachedOnlyWhileRegistered ==
    /\ [][\A h \in Handles :
             (h \in delivered' /\ h \notin delivered) =>
                 (h \in active_connections /\ conn[h] = "open")]_vars
    /\ [][(active_connections' # active_connections
             /\ active_connections' \subseteq active_connections) =>
                 snapshot' = snapshot]_vars
    /\ [](pc = "sleep" =>
             /\ delivered \subseteq Range(snapshot)
             /\ Range(snapshot) \cap active_connections \subseteq Attempted
             /\ Range(snapshot) \ active_connections \subseteq Attempted)

\* three registered; during the sends the second has been unregistered and
\* its send has raised, the first is reached and the third is being sent to
C10_Witness ==
    /\ pc = "sending"
    /\ Len(snapshot) = 3
    /\ idx = 3
    /\ Range(snapshot) \ active_connections = {snapshot[2]}
    /\ failed = {snapshot[2]}
    /\ delivered = {snapshot[1]}

----------------------------------------------------------------------------
(* C11 *)

\* What the scheduling guarantees.  The loop task goes on from every position
\* but a read: whether cap.read() ever returns a frame is the camera's doing,
\* and no client is bound to connect or to close.  A send ends, by returning
\* or by raising.  The event loop runs its ready tasks first in, first out,
\* so a handler that is ready again and again, each time the loop task is
\* suspended, does run.
Fairness ==
    /\ WF_vars(OpenOk \/ OpenFail)
    /\ WF_vars(DetectFail \/ ProcessFrame(LoopFrames))
    /\ WF_vars(Snapshot)
    /\ WF_vars(SendOk \/ SendFail)
    /\ WF_vars(SleepDone)
    /\ \A h \in Handles : SF_vars(Register(h))
    /\ \A h \in Handles : SF_vars(Unregister(h))
    /\ \A h \in Handles : WF_vars(Cancel(h))

FairSpec == Spec /\ Fairness

\* the loop never returns and never raises
Streaming == pc \notin {"terminal", "crashed"}

\* C11: in a run that stays STREAMING, a registered websocket that has closed
\* is eventually removed from the registry, and an accepted websocket is
\* eventually registered.
C11_EventuallyConsistent ==
    ([]Streaming) =>
        \A h \in Handles :
            /\ (h \in active_connections /\ conn[h] = "closed")
                  ~> (h \notin active_connections)
            /\ (handler[h] = "accepted") ~> (handler[h] # "accepted")

\* the same, for the runs in which the loop task is suspended again and again
C11_ConsistentWhenSuspending ==
    (([]Streaming) /\ []<>Suspended) =>
        \A h \in Handles :
            /\ (h \in active_connections /\ conn[h] = "closed")
                  ~> (h \notin active_connections)
            /\ (handler[h] = "accepted") ~> (handler[h] # "accepted")

----------------------------------------------------------------------------
(* C12 *)

\* C12: when the capture device does not open, the loop is TERMINAL at once
\* and for good: the device is not opened again, no frame is read or
\* processed, and nothing is sent.
C12_OpenFailureIsTerminal ==
    /\ [](cap = "failed" =>
             /\ pc = "terminal"
             /\ misses = 0
             /\ results = <<>>
             /\ response = <<>>
             /\ snapshot = <<>>
             /\ Attempted = {})
    /\ [][cap = "failed" => (cap' = "failed" /\ pc' = "terminal")]_vars

\* the device did not open
C12_Witness ==
    /\ cap = "failed"
    /\ pc = "terminal"
    /\ active_connections = {}

----------------------------------------------------------------------------
(* C13 *)

StreamingPositions == {"read", "process", "fanout", "sending", "sleep"}

\* C13: once the device is open, whatever fails inside a cycle, the loop
\* stays in STREAMING.
C13_ErrorsStayInsideTheCycle ==
    [][(pc \in StreamingPositions) => (pc' \in StreamingPositions)]_vars

----------------------------------------------------------------------------
(* C14 *)

\* C14: a failed read leaves the loop at the read and changes nothing else,
\* so that after any number of failed reads in a row no frame has been
\* processed, no payload built, nothing sent and no sleep taken.
C14_FailedReadRetriesAtOnce ==
    /\ [][(misses' # misses /\ misses' > 0) =>
             /\ pc = "read"
             /\ pc' = "read"
             /\ UNCHANGED <<cap, results, response, snapshot, idx, delivered,
                            failed, active_connections, conn, handler>>]_vars
    /\ [](misses > 0 =>
             /\ pc = "read"
             /\ response = <<>>
             /\ snapshot = <<>>
             /\ Attempted = {})

\* as many failed reads in a row as are counted, with a subscriber registered
C14_Witness ==
    /\ misses = MaxMisses
    /\ pc = "read"
    /\ active_connections # {}

----------------------------------------------------------------------------
(* C15 *)

\* C15: a frame in hand is followed by its payload, the payload by the
\* fan-out, the fan-out by the sleep and the sleep by the next read.
C15_AcquisitionRunsTheCycle ==
    [][/\ pc = "process" => (pc' = "fanout" /\ response' # <<>>)
       /\ pc = "fanout" => pc' \in {"sending", "sleep"}
       /\ pc = "sending" => pc' \in {"sending", "sleep"}
       /\ pc = "sleep" => pc' \in {"sleep", "read"}]_vars

----------------------------------------------------------------------------
(* C16 *)

\* C16: while the loop runs, the registry and the handlers change only when
\* the loop task is in a send or in the sleep, and such a change does not
\* move the loop; so from the read to the snapshot they do not change.
C16_HandlersRunOnlyAtAwaits ==
    /\ [][(pc \in {"init", "read", "process", "fanout"}) =>
             (UNCHANGED <<active_connections, conn, handler>>)]_vars
    /\ [][(active_connections' # active_connections /\ pc # "crashed") =>
             (pc \in {"sending", "sleep"} /\ pc' = pc)]_vars

\* the first websocket registered during the sleep of a cycle that had no
\* subscriber
C16_Witness ==
    /\ pc = "sleep"
    /\ response # <<>>
    /\ snapshot = <<>>
    /\ active_connections # {}

----------------------------------------------------------------------------
(* C17 *)

\* C17: as long as the pending send has not ended, the loop stays at it: no
\* later handle is attempted, no sleep, no new frame or payload; meanwhile a
\* ready handler can register or unregister.
C17_PendingSendBlocksTheCycle ==
    /\ [][(pc = "sending" /\ idx' = idx) =>
             /\ pc' = "sending"
             /\ UNCHANGED <<cap, misses, results, response, snapshot,
                            delivered, failed>>]_vars
    /\ [](pc = "sending" =>
             \A h \in Handles :
                 /\ handler[h] = "accepted" => ENABLED Register(h)
                 /\ (handler[h] = "waiting" /\ conn[h] = "closed") =>
                        ENABLED Unregister(h))

\* the first of two sends is pending; since the snapshot one websocket has
\* been unregistered and another registered
C17_Witness ==
    /\ pc = "sending"
    /\ idx = 1
    /\ Len(snapshot) = 2
    /\ Attempted = {}
    /\ Range(snapshot) \ active_connections # {}
    /\ active_connections \ Range(snapshot) # {}

----------------------------------------------------------------------------
(* C18 *)

\* C18: the registry changes only in a step of a handler, which adds its
\* websocket when it starts or removes it when it ends, and no such step
\* moves the loop; a websocket whose send raised stays registered, and the
\* next snapshot holds every registered websocket.
C18_OnlyHandlersChangeRegistry ==
    /\ [][active_connections' # active_connections =>
             /\ UNCHANGED LoopVars
             /\ \E h \in Handles :
                   \/ /\ handler[h] = "accepted"
                      /\ handler'[h] = "waiting"
                      /\ active_connections' = active_connections \cup {h}
                   \/ /\ handler[h] = "waiting"
                      /\ handler'[h] = "done"
                      /\ active_connections' = active_connections \ {h}]_vars
    /\ [][(pc = "fanout" /\ pc' # "fanout") =>
             (active_connections \subseteq Range(snapshot'))]_vars

\* at the sleep, a websocket whose send raised is open and still registered
C18_Witness ==
    /\ pc = "sleep"
    /\ \E h \in failed : h \in active_connections /\ conn[h] = "open"

----------------------------------------------------------------------------
(* C19 *)

\* C19: the registry is the set of websockets whose handler is waiting; a
\* handler goes idle, accepted, waiting, done, and when it ends its
\* websocket is in the registry and is removed.
C19_RegistryIsWaitingHandlers ==
    /\ [](active_connections = {h \in Handles : handler[h] = "waiting"})
    /\ [][\A h \in Handles :
             handler'[h] # handler[h] =>
                 /\ <<handler[h], handler'[h]>> \in
                        {<<"idle", "accepted">>, <<"accepted", "waiting">>,
                         <<"waiting", "done">>}
                 /\ handler'[h] = "done" =>
                        (h \in active_connections
                            /\ h \notin active_connections')]_vars

\* one handler ended by the close of its websocket, another by cancellation
C19_Witness ==
    /\ \E h \in Handles : handler[h] = "done" /\ conn[h] = "closed"
    /\ \E h \in Handles : handler[h] = "done" /\ conn[h] = "open"

----------------------------------------------------------------------------
(* C20 *)

\* C20: a send goes to a websocket of the snapshot not yet attempted in this
\* fan-out and carries the payload of the running cycle; the next payload is
\* built only after the fan-out is over; a websocket registered after the
\* snapshot is not in it and is attempted nothing.
C20_OneSendPerCycleInOrder ==
    /\ [](/\ Attempted \subseteq Range(snapshot)
          /\ \A i, j \in 1..Len(snapshot) : snapshot[i] = snapshot[j] => i = j
          /\ (pc = "sending" \/ Attempted # {}) => response # <<>>)
    /\ [][(pc = "sending" /\ idx' # idx) =>
             /\ snapshot[idx] \notin Attempted
             /\ delivered' \cup failed' = Attempted \cup {snapshot[idx]}
             /\ response' = response
             /\ snapshot' = snapshot]_vars
    /\ [][response' # response =>
             \/ pc = "process" /\ Attempted = {}
             \/ pc = "sleep" /\ pc' = "read"]_vars
    /\ [][active_connections' # active_connections =>
             (snapshot' = snapshot)]_vars

\* at the sleep, every websocket of the snapshot has been attempted and one
\* that registered since has not
C20_Witness ==
    /\ pc = "sleep"
    /\ snapshot # <<>>
    /\ Attempted = Range(snapshot)
    /\ \E h \in active_connections :
          h \notin Range(snapshot) /\ conn[h] = "open"

====
